---------------------------- MODULE Spec2Model ----------------------------
(***************************************************************************)
(* Test-data lifecycle of the BE POR Playwright suite: the DatabaseHelper  *)
(* client (utils/database-helper.ts), the TestCleanup tracker and the      *)
(* database / testCleanup fixtures (fixtures/test-fixtures.ts), the tests  *)
(* that create entities through the UI, and the run-once globalSetup /    *)
(* globalTeardown hooks.                                                   *)
(*                                                                         *)
(* The runner process ("main") executes globalSetup and globalTeardown;    *)
(* a worker process ("worker") executes the tests one after another.       *)
(* DatabaseHelper.pool is a static field, so each process has its own.     *)
(* Every awaited DatabaseHelper call is one step; the store may fail any   *)
(* statement (fault parameters chosen by \E).                              *)
(***************************************************************************)
EXTENDS Integers, Sequences, FiniteSets, TLC

(* ------------------------------ bounds -------------------------------- *)
MaxTests == 2      \* tests the worker runs in one run
MaxReg   == 2      \* tracker calls (register*, cleanup) made by one free-form body
MaxCalls == 3      \* direct DatabaseHelper calls in one HelperSpec behaviour
MaxText  == 3      \* characters of a text handed to generateSlug, padding aside
MaxGen   == 3      \* generateUser / generateOrganization calls in one KeySpec behaviour

(* ------------------------------- keys --------------------------------- *)
Null       == "null"
Procs      == {"main", "worker"}
ValidUser  == "valid"              \* testConfig.testUsers.validUser.email
GenEmails  == {"e1"}               \* emails TestDataGenerator.generateUser can return
GenSlugs   == {"s1", "s2"}         \* slugs TestDataGenerator.generateOrganization can return
StaleEmail == "te"                 \* a left-over row ending in @<testEmailDomain>
StaleSlug  == "ts"                 \* a left-over row starting with <testOrgPrefix>
StaleEmail2 == "tf"                \* another email ending in @<testEmailDomain>
StaleSlug2  == "tt"                \* another slug starting with <testOrgPrefix>
AllEmails  == GenEmails \cup {ValidUser, StaleEmail}
AllSlugs   == GenSlugs \cup {StaleSlug}

(* LIKE '%@<testEmailDomain>' and LIKE '<testOrgPrefix>%' over the keys above *)
EmailLike(e) == e \in {StaleEmail, StaleEmail2}
SlugLike(s)  == s \in {StaleSlug, StaleSlug2}

(* --------------------------- the backing store ------------------------- *)
(* Rows are identified by their natural key (user.id ~ email,              *)
(* organization.id ~ slug).  Every dependent table references its parent   *)
(* with ON DELETE CASCADE.                                                 *)
InitialDb ==
  [user              |-> {ValidUser, StaleEmail},
   organization      |-> {StaleSlug},
   session           |-> {},
   account           |-> {ValidUser, StaleEmail},
   member            |-> {},
   invitation        |-> {},
   organization_role |-> {StaleSlug}]

CascadeUser(d, ids) ==
  [d EXCEPT !.user       = @ \ ids,
            !.session    = @ \ ids,
            !.account    = @ \ ids,
            !.member     = {m \in @ : m[1] \notin ids},
            !.invitation = {m \in @ : m[1] \notin ids}]

CascadeOrganization(d, ids) ==
  [d EXCEPT !.organization      = @ \ ids,
            !.member            = {m \in @ : m[2] \notin ids},
            !.invitation        = {m \in @ : m[2] \notin ids},
            !.organization_role = @ \ ids]

(* the k-th statement of deleteUserByEmail after the lookup (k = 1..5) *)
UserDeleteStmtSkipsMember(d, k, id) ==
  CASE k = 1 -> [d EXCEPT !.session    = @ \ {id}]
    [] k = 2 -> [d EXCEPT !.account    = @ \ {id}]
    [] k = 3 -> d
    [] k = 4 -> [d EXCEPT !.invitation = {m \in @ : m[1] # id}]
    [] OTHER -> CascadeUser(d, {id})

UserDeleteStmt(d, k, id) ==
  CASE k = 1 -> [d EXCEPT !.session    = @ \ {id}]
    [] k = 2 -> [d EXCEPT !.account    = @ \ {id}]
    [] k = 3 -> [d EXCEPT !.member     = {m \in @ : m[1] # id}]
    [] k = 4 -> [d EXCEPT !.invitation = {m \in @ : m[1] # id}]
    [] OTHER -> CascadeUser(d, {id})

(* the k-th statement of deleteOrganizationBySlug after the lookup (k = 1..4) *)
OrganizationDeleteStmt(d, k, id) ==
  CASE k = 1 -> [d EXCEPT !.member            = {m \in @ : m[2] # id}]
    [] k = 2 -> [d EXCEPT !.invitation        = {m \in @ : m[2] # id}]
    [] k = 3 -> [d EXCEPT !.organization_role = @ \ {id}]
    [] OTHER -> CascadeOrganization(d, {id})

(* rows that reference a user / an organization through a foreign key *)
UserReferenced(d, id) ==
  \/ id \in d.session
  \/ id \in d.account
  \/ \E m \in d.member : m[1] = id
  \/ \E m \in d.invitation : m[1] = id

OrganizationReferenced(d, id) ==
  \/ id \in d.organization_role
  \/ \E m \in d.member : m[2] = id
  \/ \E m \in d.invitation : m[2] = id

RECURSIVE RunUserStmts(_, _, _, _)
RunUserStmts(d, k, last, id) ==
  IF k > last THEN d ELSE RunUserStmts(UserDeleteStmt(d, k, id), k + 1, last, id)

RECURSIVE RunOrganizationStmts(_, _, _, _)
RunOrganizationStmts(d, k, last, id) ==
  IF k > last THEN d
  ELSE RunOrganizationStmts(OrganizationDeleteStmt(d, k, id), k + 1, last, id)

(* ----------------------------- DatabaseHelper -------------------------- *)
(* this.pool is either null or a Pool object *)
NoPool  == "null"
APool   == "pool"

isConnected(pl) == pl # NoPool

(* connect(): pl is this.pool, live the number of Pool objects this        *)
(* process holds open, ok whether the 'SELECT 1' probe succeeds.           *)
(* created / probed tell whether the call constructed a Pool and issued    *)
(* the probe; res is "noop" | "ok" | "threw".                              *)
connectWithoutGuard(pl, live, ok) ==
  IF ok
    THEN [pool |-> APool, live |-> live + 1, created |-> TRUE, probed |-> TRUE,
          res |-> "ok"]
    ELSE [pool |-> NoPool, live |-> live, created |-> TRUE, probed |-> TRUE,
          res |-> "threw"]

connectKeepsFailedPool(pl, live, ok) ==
  IF pl # NoPool
    THEN [pool |-> pl, live |-> live, created |-> FALSE, probed |-> FALSE,
          res |-> "noop"]
    ELSE IF ok
      THEN [pool |-> APool, live |-> live + 1, created |-> TRUE, probed |-> TRUE,
            res |-> "ok"]
      ELSE [pool |-> APool, live |-> live + 1, created |-> TRUE, probed |-> TRUE,
            res |-> "threw"]

connect(pl, live, ok) ==
  IF pl # NoPool
    THEN [pool |-> pl, live |-> live, created |-> FALSE, probed |-> FALSE,
          res |-> "noop"]
    ELSE IF ok
      THEN [pool |-> APool, live |-> live + 1, created |-> TRUE, probed |-> TRUE,
            res |-> "ok"]
      ELSE [pool |-> NoPool, live |-> live, created |-> TRUE, probed |-> TRUE,
            res |-> "threw"]

(* disconnect(): ok is whether pool.end() resolves *)
disconnectKeepsPool(pl, live, ok) ==
  IF pl = NoPool THEN [pool |-> NoPool, live |-> live, res |-> "noop"]
  ELSE IF ok THEN [pool |-> pl, live |-> live - 1, res |-> "ok"]
  ELSE [pool |-> pl, live |-> live, res |-> "threw"]

disconnect(pl, live, ok) ==
  IF pl = NoPool THEN [pool |-> NoPool, live |-> live, res |-> "noop"]
  ELSE IF ok THEN [pool |-> NoPool, live |-> live - 1, res |-> "ok"]
  ELSE [pool |-> pl, live |-> live, res |-> "threw"]

(* Fault parameter f of a helper: 0 = every statement succeeds, k > 0 =    *)
(* the k-th statement the helper issues throws.  query() also throws when  *)
(* the pool is null, which makes the first statement fail.  A delete       *)
(* helper returns the store after it, its boolean result, whether it       *)
(* logged an error (a catch block ran), whether it threw, and whether rows *)
(* still referenced the entity when its own row was deleted.               *)
FirstFault(pl, f) == IF pl = NoPool THEN 1 ELSE f

findUserByEmailAnyRow(pl, d, email, f) ==
  IF FirstFault(pl, f) = 1 THEN Null
  ELSE IF d.user # {} THEN CHOOSE u \in d.user : TRUE ELSE Null

findUserByEmail(pl, d, email, f) ==
  IF FirstFault(pl, f) = 1 THEN Null
  ELSE IF email \in d.user THEN email ELSE Null

findOrganizationBySlug(pl, d, slug, f) ==
  IF FirstFault(pl, f) = 1 THEN Null
  ELSE IF slug \in d.organization THEN slug ELSE Null

UserStatements == 6            \* lookup + 4 dependent deletes + entity delete
OrganizationStatements == 5    \* lookup + 3 dependent deletes + entity delete

deleteUserByEmailTrueWhenMissing(pl, d, email, f) ==
  LET ff   == FirstFault(pl, f)
      user == findUserByEmail(pl, d, email, f)
  IN  IF user = Null
        THEN [db |-> d, ret |-> (ff # 1), error |-> (ff = 1), threw |-> FALSE,
              referenced |-> FALSE]
      ELSE IF ff = 0
        THEN [db |-> RunUserStmts(d, 1, 5, user), ret |-> TRUE, error |-> FALSE,
              threw |-> FALSE,
              referenced |-> UserReferenced(RunUserStmts(d, 1, 4, user), user)]
        ELSE [db |-> RunUserStmts(d, 1, ff - 2, user), ret |-> FALSE, error |-> TRUE,
              threw |-> FALSE, referenced |-> FALSE]

deleteUserByEmail(pl, d, email, f) ==
  LET ff   == FirstFault(pl, f)
      user == findUserByEmail(pl, d, email, f)
  IN  IF user = Null
        THEN [db |-> d, ret |-> FALSE, error |-> (ff = 1), threw |-> FALSE,
              referenced |-> FALSE]
      ELSE IF ff = 0
        THEN [db |-> RunUserStmts(d, 1, 5, user), ret |-> TRUE, error |-> FALSE,
              threw |-> FALSE,
              referenced |-> UserReferenced(RunUserStmts(d, 1, 4, user), user)]
        ELSE [db |-> RunUserStmts(d, 1, ff - 2, user), ret |-> FALSE, error |-> TRUE,
              threw |-> FALSE, referenced |-> FALSE]

deleteOrganizationBySlugRethrows(pl, d, slug, f) ==
  LET ff  == FirstFault(pl, f)
      org == findOrganizationBySlug(pl, d, slug, f)
  IN  IF org = Null
        THEN [db |-> d, ret |-> FALSE, error |-> (ff = 1), threw |-> FALSE,
              referenced |-> FALSE]
      ELSE IF ff = 0
        THEN [db |-> RunOrganizationStmts(d, 1, 4, org), ret |-> TRUE, error |-> FALSE,
              threw |-> FALSE,
              referenced |-> OrganizationReferenced(RunOrganizationStmts(d, 1, 3, org), org)]
        ELSE [db |-> RunOrganizationStmts(d, 1, ff - 2, org), ret |-> FALSE,
              error |-> TRUE, threw |-> TRUE, referenced |-> FALSE]

deleteOrganizationBySlug(pl, d, slug, f) ==
  LET ff  == FirstFault(pl, f)
      org == findOrganizationBySlug(pl, d, slug, f)
  IN  IF org = Null
        THEN [db |-> d, ret |-> FALSE, error |-> (ff = 1), threw |-> FALSE,
              referenced |-> FALSE]
      ELSE IF ff = 0
        THEN [db |-> RunOrganizationStmts(d, 1, 4, org), ret |-> TRUE, error |-> FALSE,
              threw |-> FALSE,
              referenced |-> OrganizationReferenced(RunOrganizationStmts(d, 1, 3, org), org)]
        ELSE [db |-> RunOrganizationStmts(d, 1, ff - 2, org), ret |-> FALSE,
              error |-> TRUE, threw |-> FALSE, referenced |-> FALSE]

verifyOrganizationExists(pl, d, slug, f) == findOrganizationBySlug(pl, d, slug, f) # Null


(* dependent rows of a set of users / organizations, entity rows kept *)
DeleteUserDependents(d, ids) ==
  [d EXCEPT !.session    = @ \ ids,
            !.account    = @ \ ids,
            !.member     = {m \in @ : m[1] \notin ids},
            !.invitation = {m \in @ : m[1] \notin ids}]

DeleteOrganizationDependents(d, ids) ==
  [d EXCEPT !.member            = {m \in @ : m[2] \notin ids},
            !.invitation        = {m \in @ : m[2] \notin ids},
            !.organization_role = @ \ ids]

(* Bulk sweeps.  f is where the store fails: "none", "select" (the first   *)
(* SELECT), "loop" (a dependent-row DELETE: the rows in done were fully    *)
(* processed, the row victim failed at its k-th DELETE) or "final" (the    *)
(* closing DELETE ... LIKE).  The helper catches every error and returns   *)
(* 0; error tells whether its catch block ran.                             *)
SweepFaults == {"none", "select", "loop", "final"}

cleanupTestUsers(pl, d, f, done, victim, k) ==
  LET users == {e \in d.user : EmailLike(e)}
  IN  IF pl = NoPool \/ f = "select" THEN [db |-> d, ret |-> 0, error |-> TRUE]
      ELSE IF users = {} THEN [db |-> d, ret |-> 0, error |-> FALSE]
      ELSE IF f = "loop"
        THEN [db |-> RunUserStmts(DeleteUserDependents(d, done), 1, k - 1, victim),
              ret |-> 0, error |-> TRUE]
      ELSE IF f = "final"
        THEN [db |-> DeleteUserDependents(d, users), ret |-> 0, error |-> TRUE]
      ELSE [db |-> CascadeUser(d, users), ret |-> Cardinality(users), error |-> FALSE]

cleanupTestOrganizationsAll(pl, d, f, done, victim, k) ==
  LET orgs == {s \in d.organization : SlugLike(s)}
  IN  IF pl = NoPool \/ f = "select" THEN [db |-> d, ret |-> 0, error |-> TRUE]
      ELSE IF orgs = {} THEN [db |-> d, ret |-> 0, error |-> FALSE]
      ELSE IF f = "loop"
        THEN [db |-> RunOrganizationStmts(DeleteOrganizationDependents(d, done), 1, k - 1, victim),
              ret |-> 0, error |-> TRUE]
      ELSE IF f = "final"
        THEN [db |-> DeleteOrganizationDependents(d, orgs), ret |-> 0, error |-> TRUE]
      ELSE [db |-> CascadeOrganization(d, d.organization),
            ret |-> Cardinality(d.organization), error |-> FALSE]

cleanupTestOrganizations(pl, d, f, done, victim, k) ==
  LET orgs == {s \in d.organization : SlugLike(s)}
  IN  IF pl = NoPool \/ f = "select" THEN [db |-> d, ret |-> 0, error |-> TRUE]
      ELSE IF orgs = {} THEN [db |-> d, ret |-> 0, error |-> FALSE]
      ELSE IF f = "loop"
        THEN [db |-> RunOrganizationStmts(DeleteOrganizationDependents(d, done), 1, k - 1, victim),
              ret |-> 0, error |-> TRUE]
      ELSE IF f = "final"
        THEN [db |-> DeleteOrganizationDependents(d, orgs), ret |-> 0, error |-> TRUE]
      ELSE [db |-> CascadeOrganization(d, orgs), ret |-> Cardinality(orgs),
            error |-> FALSE]

(* --------------------------- TestDataGenerator -------------------------- *)
(* A string is a sequence of characters.  "A" stands for the upper-case    *)
(* letters, "a" and "b" for lower-case letters, "7" for the digits, " "    *)
(* for white space and "!" for every other character.                      *)
Chars    == {"A", "b", "7", " ", "-", "!"}
SlugMax  == 50

Min(a, b) == IF a < b THEN a ELSE b

toLowerCase(t) == [i \in 1..Len(t) |-> IF t[i] = "A" THEN "a" ELSE t[i]]

(* .replace(/[^a-z0-9\s-]/g, '') *)
KeptBySlug(c) == c \in {"a", "b", "7", " ", "-"}
StripSpecial(t) == SelectSeq(t, KeptBySlug)

RECURSIVE DropLeading(_, _)
DropLeading(t, c) ==
  IF t # <<>> /\ Head(t) = c THEN DropLeading(Tail(t), c) ELSE t

RECURSIVE DropTrailing(_, _)
DropTrailing(t, c) ==
  IF t # <<>> /\ t[Len(t)] = c THEN DropTrailing(SubSeq(t, 1, Len(t) - 1), c) ELSE t

(* .replace(/\s+/g, '-') *)
RECURSIVE SpacesToHyphen(_)
SpacesToHyphen(t) ==
  IF t = <<>> THEN <<>>
  ELSE IF Head(t) = " " THEN <<"-">> \o SpacesToHyphen(DropLeading(t, " "))
  ELSE <<Head(t)>> \o SpacesToHyphen(Tail(t))

(* .replace(/-+/g, '-') *)
RECURSIVE CollapseHyphens(_)
CollapseHyphens(t) ==
  IF t = <<>> THEN <<>>
  ELSE IF Head(t) = "-" THEN <<"-">> \o CollapseHyphens(DropLeading(t, "-"))
  ELSE <<Head(t)>> \o CollapseHyphens(Tail(t))

(* String.prototype.trim: white space off both ends *)
trim(t) == DropTrailing(DropLeading(t, " "), " ")

(* .substring(0, n) *)
substring(t, n) == SubSeq(t, 1, Min(n, Len(t)))

generateSlugUnlimited(t) ==
  trim(CollapseHyphens(SpacesToHyphen(StripSpecial(toLowerCase(t)))))

generateSlug(t) ==
  substring(trim(CollapseHyphens(SpacesToHyphen(StripSpecial(toLowerCase(t))))), SlugMax)

generateOrganization(companyName) == [name |-> companyName, slug |-> generateSlug(companyName)]

(* faker.internet.email(...).toLowerCase() *)
generateUser(fakerEmail) == [email |-> toLowerCase(fakerEmail)]

(* ------------------------------- state --------------------------------- *)
VARIABLES
  env,                    \* process.env / testConfig flags, fixed for the run
  db,                     \* the backing store
  pool,                   \* DatabaseHelper.pool of each process
  livePools,              \* Pool objects each process holds open
  lastConnect,            \* the latest connect() call of each process
  mpc,                    \* position of the runner process
  setupResult,            \* "none" | "skipped" | "returned" | "threw"
  teardownResult,         \* "none" | "skipped" | "returned" | "threw"
  gtLog,                  \* steps globalTeardown attempted: <<step, it failed>>
  wpc,                    \* position of the worker process
  testsRun,               \* tests started by the worker
  testKind,               \* the test being run
  hasTracker,             \* the test requested the testCleanup fixture
  usersToCleanup,         \* TestCleanup.usersToCleanup
  organizationsToCleanup, \* TestCleanup.organizationsToCleanup
  genKey,                 \* natural key generated by the test body
  created,                \* keys the test body created through the UI
  bodyOutcome,            \* "none" | "passed" | "failed" | "skipped"
  testLog,                \* Logger.testStart / Logger.testEnd lines of the test
  regCalls,               \* register calls made by the body
  clCaller,               \* who called cleanup(): "fixture" | "body"
  clIdx,                  \* loop index inside cleanup()
  clPath,                 \* "none" | "nourl" | "connfail" | "full"
  clResult,               \* "none" | "running" | "returned" | "threw"
  clPlan,                 \* registrations at the time cleanup() was entered
  attempted,              \* deletions cleanup() has attempted, in order
  fixtureCleanups,        \* cleanup() invocations made by the fixture teardown
  call,                   \* the latest direct DatabaseHelper call (HelperSpec)
  calls,                  \* direct DatabaseHelper calls made so far (HelperSpec)
  genOp,                  \* the latest TestDataGenerator call (GeneratorSpec)
  genText,                \* its input text, a sequence of characters
  genSlug,                \* the slug it returned
  issued,                 \* keys the generator has handed out, in order (KeySpec)
  migPc,                  \* position of the migration script (MigrateSpec)
  migStmt,                \* index of its next statement
  migTables,              \* tables present in the store's schema
  migPool,                \* the script's own Pool: "none" | "open" | "ended"
  migFault,               \* index of the statement that failed, 0 if none
  migExit,                \* exit status of the script's process, Null while it runs
  task,                   \* the concurrent callers of one process (ConnectSpec)
  del,                    \* the concurrent delete calls (DeleteRaceSpec)
  delOp,                  \* the helper and the natural key they were called with
  table,                  \* the organization list as rendered (PageSpec)
  pageCall                \* the latest OrganizationPage call

dbVars      == <<db, pool, livePools, lastConnect>>
mainVars    == <<mpc, setupResult, teardownResult, gtLog>>
testVars    == <<testsRun, testKind, hasTracker, genKey, created, bodyOutcome, testLog,
                 regCalls>>
trackerVars == <<usersToCleanup, organizationsToCleanup>>
cleanupVars == <<clCaller, clIdx, clPath, clResult, clPlan, attempted, fixtureCleanups>>
migrateVars == <<migPc, migStmt, migTables, migPool, migFault, migExit>>
taskVars    == <<task>>
raceVars    == <<del, delOp>>
pageVars    == <<table, pageCall>>
auxVars     == <<migrateVars, taskVars, raceVars, pageVars>>
libVars     == <<call, calls, genOp, genText, genSlug, issued, auxVars>>
vars == <<env, libVars, dbVars, mainVars, wpc, testVars, trackerVars, cleanupVars>>

Envs == [DATABASE_URL : BOOLEAN, CI : BOOLEAN,
         cleanupOnStart : BOOLEAN, cleanupOnEnd : BOOLEAN]

(* pre / post: this.pool before and after the call; retry: the previous    *)
(* connect() of the same process threw                                     *)
NoConnect == [pre |-> NoPool, post |-> NoPool, created |-> FALSE, probed |-> FALSE,
              res |-> "none", retry |-> FALSE]

EmptyDb ==
  [user |-> {}, organization |-> {}, session |-> {}, account |-> {}, member |-> {},
   invitation |-> {}, organization_role |-> {}]

(* no direct helper call has been made *)
NoCall == [op |-> "none", key |-> Null, fault |-> FALSE, pre |-> EmptyDb,
           poolPre |-> NoPool, livePre |-> 0, ret |-> FALSE, row |-> Null,
           count |-> 0, res |-> "none", threw |-> FALSE, referenced |-> FALSE,
           prevSame |-> FALSE, prevRet |-> FALSE, prevRes |-> "none"]

(* every process freshly started: no pool, no test running, nothing called *)
FreshRun ==
  /\ call = NoCall
  /\ calls = 0
  /\ genOp = "none"
  /\ genText = <<>>
  /\ genSlug = <<>>
  /\ issued = <<>>
  /\ pool = [p \in Procs |-> NoPool]
  /\ livePools = [p \in Procs |-> 0]
  /\ lastConnect = [p \in Procs |-> NoConnect]
  /\ mpc = "start"
  /\ setupResult = "none"
  /\ teardownResult = "none"
  /\ gtLog = <<>>
  /\ wpc = "idle"
  /\ testsRun = 0
  /\ testKind = "none"
  /\ hasTracker = FALSE
  /\ usersToCleanup = <<>>
  /\ organizationsToCleanup = <<>>
  /\ genKey = Null
  /\ created = {}
  /\ bodyOutcome = "none"
  /\ testLog = <<>>
  /\ regCalls = 0
  /\ clCaller = "none"
  /\ clIdx = 0
  /\ clPath = "none"
  /\ clResult = "none"
  /\ clPlan = <<>>
  /\ attempted = <<>>
  /\ fixtureCleanups = 0

FreshMigration ==
  /\ migPc = "start"
  /\ migStmt = 1
  /\ migTables = {}
  /\ migPool = "none"
  /\ migFault = 0
  /\ migExit = Null

(* a caller that has not called anything yet *)
Tasks  == {"t1", "t2"}
NoTask == [pc |-> "idle", returned |-> FALSE, saw |-> "none", held |-> FALSE]

FreshTasks == task = [t \in Tasks |-> NoTask]

(* a delete call that has not issued its lookup yet; pc counts the         *)
(* statements it has completed                                             *)
NoDel == [pc |-> 0, id |-> Null, ret |-> FALSE, fault |-> 0, threw |-> FALSE,
          done |-> FALSE]
NoOp  == [kind |-> "none", key |-> Null]

FreshRace ==
  /\ del = [t \in Tasks |-> NoDel]
  /\ delOp = NoOp

(* the organization list: what each slug's row shows, if it has a row *)
PageSlugs  == {"s1", "s2", "s3"}
NoPageCall == [op |-> "none", slug |-> Null, ret |-> FALSE, clicked |-> FALSE,
               pre |-> "absent", activated |-> Null]

FreshPage ==
  /\ table = [o \in PageSlugs |-> "absent"]
  /\ pageCall = NoPageCall

Fresh ==
  /\ FreshRun
  /\ FreshMigration
  /\ FreshTasks
  /\ FreshRace
  /\ FreshPage

Init ==
  /\ env \in Envs
  /\ db = InitialDb
  /\ Fresh

(* one DatabaseHelper.connect() call by process p *)
DoConnect(p, ok) ==
  LET r == connect(pool[p], livePools[p], ok)
  IN  /\ pool' = [pool EXCEPT ![p] = r.pool]
      /\ livePools' = [livePools EXCEPT ![p] = r.live]
      /\ lastConnect' = [lastConnect EXCEPT ![p] =
                           [pre |-> pool[p], post |-> r.pool, created |-> r.created,
                            probed |-> r.probed, res |-> r.res,
                            retry |-> (lastConnect[p].res = "threw")]]

ConnNoDb == <<pool, livePools, lastConnect>>


(* ------------------------ runner process: setup ------------------------ *)
(* playwright config: the hooks are not installed in CI without a URL *)
HooksInstalledAlways(e) == TRUE

HooksInstalled(e) == ~(e.CI /\ ~e.DATABASE_URL)

RunnerStart ==
  /\ mpc = "start"
  /\ IF HooksInstalled(env)
       THEN mpc' = "gs_connect" /\ UNCHANGED setupResult
       ELSE mpc' = "workers" /\ setupResult' = "skipped"
  /\ UNCHANGED <<env, libVars, dbVars, teardownResult, gtLog, wpc, testVars, trackerVars, cleanupVars>>

(* globalSetup's catch block: what the hook does with a caught error *)
GlobalSetupOnError == "threw"

GlobalSetupConnect ==
  /\ mpc = "gs_connect"
  /\ \E ok \in BOOLEAN : DoConnect("main", ok)
  /\ IF lastConnect'["main"].res = "threw"
       THEN /\ setupResult' = GlobalSetupOnError
            /\ mpc' = IF GlobalSetupOnError = "threw" THEN "aborted" ELSE "workers"
       ELSE IF env.cleanupOnStart
         THEN mpc' = "gs_users" /\ UNCHANGED setupResult
         ELSE mpc' = "workers" /\ setupResult' = "returned"
  /\ UNCHANGED <<env, libVars, db, teardownResult, gtLog, wpc, testVars, trackerVars, cleanupVars>>

(* every result one cleanupTestUsers / cleanupTestOrganizations call can    *)
(* have, over the places where the store may fail                           *)
UserSweepOutcomes(pl, d) ==
  LET users == {e \in d.user : EmailLike(e)}
  IN  {cleanupTestUsers(pl, d, f, {}, Null, 1) : f \in SweepFaults \ {"loop"}}
        \cup UNION {UNION {{cleanupTestUsers(pl, d, "loop", done, victim, k) : k \in 1..4}
                             : done \in SUBSET (users \ {victim})}
                      : victim \in users}

OrganizationSweepOutcomes(pl, d) ==
  LET orgs == {s \in d.organization : SlugLike(s)}
  IN  {cleanupTestOrganizations(pl, d, f, {}, Null, 1) : f \in SweepFaults \ {"loop"}}
        \cup UNION {UNION {{cleanupTestOrganizations(pl, d, "loop", done, victim, k)
                               : k \in 1..3}
                             : done \in SUBSET (orgs \ {victim})}
                      : victim \in orgs}

SweepUsers(p)         == \E r \in UserSweepOutcomes(pool[p], db) : db' = r.db
SweepOrganizations(p) == \E r \in OrganizationSweepOutcomes(pool[p], db) : db' = r.db

GlobalSetupSweepUsers ==
  /\ mpc = "gs_users"
  /\ SweepUsers("main")
  /\ mpc' = "gs_orgs"
  /\ UNCHANGED <<env, libVars, ConnNoDb, setupResult, teardownResult, gtLog, wpc, testVars,
                 trackerVars, cleanupVars>>

GlobalSetupSweepOrganizations ==
  /\ mpc = "gs_orgs"
  /\ SweepOrganizations("main")
  /\ mpc' = "workers"
  /\ setupResult' = "returned"
  /\ UNCHANGED <<env, libVars, ConnNoDb, teardownResult, gtLog, wpc, testVars, trackerVars, cleanupVars>>

(* ----------------------- runner process: teardown ---------------------- *)
RunnerFinish ==
  /\ mpc = "workers"
  /\ wpc = "idle"
  /\ IF HooksInstalled(env)
       THEN mpc' = "gt_entry" /\ UNCHANGED teardownResult
       ELSE mpc' = "end" /\ teardownResult' = "skipped"
  /\ UNCHANGED <<env, libVars, dbVars, setupResult, gtLog, wpc, testVars, trackerVars, cleanupVars>>

GlobalTeardownEntry ==
  /\ mpc = "gt_entry"
  /\ IF env.DATABASE_URL
       THEN mpc' = "gt_connect" /\ UNCHANGED teardownResult
       ELSE mpc' = "end" /\ teardownResult' = "returned"
  /\ UNCHANGED <<env, libVars, dbVars, setupResult, gtLog, wpc, testVars, trackerVars, cleanupVars>>

GlobalTeardownConnect ==
  /\ mpc = "gt_connect"
  /\ \E ok \in BOOLEAN : DoConnect("main", ok)
  /\ gtLog' = Append(gtLog, <<"connect", lastConnect'["main"].res = "threw">>)
  /\ mpc' = IF env.cleanupOnEnd /\ isConnected(pool'["main"])
              THEN "gt_users" ELSE "gt_disconnect"
  /\ UNCHANGED <<env, libVars, db, setupResult, teardownResult, wpc, testVars, trackerVars,
                 cleanupVars>>

(* where globalTeardown goes after the user sweep returned r *)
GlobalTeardownAfterUsersStopsOnError(r) == IF r.error THEN "gt_disconnect" ELSE "gt_orgs"

GlobalTeardownAfterUsers(r) == "gt_orgs"

GlobalTeardownSweepUsers ==
  /\ mpc = "gt_users"
  /\ \E r \in UserSweepOutcomes(pool["main"], db) :
       /\ db' = r.db
       /\ gtLog' = Append(gtLog, <<"users", r.error>>)
       /\ mpc' = GlobalTeardownAfterUsers(r)
  /\ UNCHANGED <<env, libVars, ConnNoDb, setupResult, teardownResult, wpc, testVars,
                 trackerVars, cleanupVars>>

GlobalTeardownSweepOrganizations ==
  /\ mpc = "gt_orgs"
  /\ \E r \in OrganizationSweepOutcomes(pool["main"], db) :
       /\ db' = r.db
       /\ gtLog' = Append(gtLog, <<"orgs", r.error>>)
  /\ mpc' = "gt_disconnect"
  /\ UNCHANGED <<env, libVars, ConnNoDb, setupResult, teardownResult, wpc, testVars,
                 trackerVars, cleanupVars>>

GlobalTeardownDisconnect ==
  /\ mpc = "gt_disconnect"
  /\ IF isConnected(pool["main"])
       THEN \E ok \in BOOLEAN :
              LET r == disconnect(pool["main"], livePools["main"], ok)
              IN  /\ pool' = [pool EXCEPT !["main"] = r.pool]
                  /\ livePools' = [livePools EXCEPT !["main"] = r.live]
                  /\ gtLog' = Append(gtLog, <<"disconnect", r.res = "threw">>)
       ELSE UNCHANGED <<pool, livePools, gtLog>>
  /\ mpc' = "end"
  /\ teardownResult' = "returned"
  /\ UNCHANGED <<env, libVars, db, lastConnect, setupResult,
                 wpc, testVars, trackerVars, cleanupVars>>


(* ------------------------------ the tests ------------------------------ *)
(* "signup"      'should successfully create a new user account'           *)
(* "createOrg"   'should successfully create organization'                 *)
(* "activateOrg" 'should activate an inactive organization'                *)
(* "tracker"     a body that only drives the TestCleanup API               *)
TestKinds == {"signup", "createOrg", "activateOrg", "tracker"}

UsesTracker(kind)  == kind \in {"createOrg", "activateOrg", "tracker"}
UsesDatabase(kind) == kind = "createOrg"
FirstBody(kind) ==
  CASE kind = "signup"  -> "b_generate"
    [] kind = "tracker" -> "b_free"
    [] OTHER            -> "b_skipcheck"

ScriptedBody == {"b_skipcheck", "b_generate", "b_register", "b_verify", "b_submit",
                 "b_assert"}

(* TestCleanup *)
registerUser(list, email)        == Append(list, email)
registerOrganization(list, slug) == Append(list, slug)
getStats(users, orgs) == [users |-> Len(users), organizations |-> Len(orgs)]

(* what the application under test writes when the UI flow succeeds *)
UiCreateUser(d, e) ==
  IF e \in d.user THEN d
  ELSE [d EXCEPT !.user = @ \cup {e}, !.account = @ \cup {e}]

UiCreateOrganization(d, s) ==
  IF s \in d.organization THEN d
  ELSE [d EXCEPT !.organization = @ \cup {s}, !.member = @ \cup {<<ValidUser, s>>}]

ResetCleanup ==
  /\ clCaller' = "none"
  /\ clIdx' = 0
  /\ clPath' = "none"
  /\ clResult' = "none"
  /\ clPlan' = <<>>
  /\ attempted' = <<>>
  /\ fixtureCleanups' = 0

StartTest ==
  /\ mpc = "workers"
  /\ wpc = "idle"
  /\ testsRun < MaxTests
  /\ \E kind \in TestKinds :
       /\ testKind' = kind
       /\ hasTracker' = UsesTracker(kind)
       /\ wpc' = IF UsesDatabase(kind) THEN "fx_database" ELSE FirstBody(kind)
  /\ testsRun' = testsRun + 1
  /\ UNCHANGED <<env, libVars, dbVars, mainVars, genKey, created, bodyOutcome, testLog,
                 regCalls,
                 trackerVars, cleanupVars>>

(* the database fixture, up to use() *)
DatabaseFixture ==
  /\ wpc = "fx_database"
  /\ IF env.CI /\ ~env.DATABASE_URL THEN UNCHANGED ConnNoDb
     ELSE IF env.DATABASE_URL THEN \E ok \in BOOLEAN : DoConnect("worker", ok)
     ELSE UNCHANGED ConnNoDb
  /\ wpc' = FirstBody(testKind)
  /\ UNCHANGED <<env, libVars, db, mainVars, testVars, trackerVars, cleanupVars>>

(* Logger *)
testStart(log, testName)       == Append(log, <<"testStart", testName>>)
testEnd(log, testName, passed) == Append(log, <<"testEnd", testName, passed>>)

LoggedTests == {"createOrg", "activateOrg"}
TestName(kind) ==
  CASE kind = "createOrg"   -> "Create Organization"
    [] kind = "activateOrg" -> "Activate Organization"
    [] OTHER                -> "unnamed"

(* the body ends: neither logged body has a try/catch, so Logger.testEnd is *)
(* reached only by the statement that closes a completed body              *)
EndBody(outcome) ==
  /\ bodyOutcome' = outcome
  /\ testLog' = IF testKind \in LoggedTests /\ outcome = "passed"
                  THEN testEnd(testLog, TestName(testKind), TRUE)
                  ELSE testLog
  /\ wpc' = "fx_teardown"

BodySkipCheck ==
  /\ wpc = "b_skipcheck"
  /\ IF ~env.DATABASE_URL
       THEN EndBody("skipped")
       ELSE /\ wpc' = "b_generate"
            /\ testLog' = testStart(testLog, TestName(testKind))
            /\ UNCHANGED bodyOutcome
  /\ UNCHANGED <<env, libVars, dbVars, mainVars, testsRun, testKind, hasTracker, genKey, created,
                 regCalls, trackerVars, cleanupVars>>

BodyGenerate ==
  /\ wpc = "b_generate"
  /\ \E key \in (IF testKind = "signup" THEN GenEmails ELSE GenSlugs) : genKey' = key
  /\ wpc' = IF testKind = "signup" THEN "b_submit" ELSE "b_register"
  /\ UNCHANGED <<env, libVars, dbVars, mainVars, testsRun, testKind, hasTracker, created,
                 bodyOutcome, testLog, regCalls, trackerVars, cleanupVars>>

BodyRegister ==
  /\ wpc = "b_register"
  /\ organizationsToCleanup' = registerOrganization(organizationsToCleanup, genKey)
  /\ regCalls' = regCalls + 1
  /\ wpc' = IF testKind = "createOrg" THEN "b_verify" ELSE "b_submit"
  /\ UNCHANGED <<env, libVars, dbVars, mainVars, testsRun, testKind, hasTracker, genKey, created,
                 bodyOutcome, testLog, usersToCleanup, cleanupVars>>

(* step 3 of the creation test: the organization must not exist yet *)
BodyVerifyBefore ==
  /\ wpc = "b_verify"
  /\ \E skipDbVerification \in (IF env.CI THEN BOOLEAN ELSE {FALSE}) : \E f \in 0..1 :
       IF ~skipDbVerification /\ verifyOrganizationExists(pool["worker"], db, genKey, f)
         THEN EndBody("failed")
         ELSE wpc' = "b_submit" /\ UNCHANGED <<bodyOutcome, testLog>>
  /\ UNCHANGED <<env, libVars, dbVars, mainVars, testsRun, testKind, hasTracker, genKey, created,
                 regCalls, trackerVars, cleanupVars>>

(* signUpPage.signUp(userData) / organizationPage.clickSubmit() *)
BodySubmit ==
  /\ wpc = "b_submit"
  /\ \E uiOk \in BOOLEAN :
       IF uiOk
         THEN /\ db' = IF testKind = "signup" THEN UiCreateUser(db, genKey)
                       ELSE UiCreateOrganization(db, genKey)
              /\ created' = IF genKey \in db.user \cup db.organization
                              THEN created ELSE created \cup {genKey}
              /\ wpc' = "b_assert"
              /\ UNCHANGED <<bodyOutcome, testLog>>
         ELSE /\ EndBody("failed")
              /\ UNCHANGED <<db, created>>
  /\ UNCHANGED <<env, libVars, ConnNoDb, mainVars, testsRun, testKind, hasTracker, genKey,
                 regCalls, trackerVars, cleanupVars>>

(* the assertions that follow the creation *)
BodyAssert ==
  /\ wpc = "b_assert"
  /\ \E uiPass \in BOOLEAN : \E skipDbVerification \in (IF env.CI THEN BOOLEAN ELSE {FALSE}) :
     \E f \in 0..1 :
       LET dbPass == \/ testKind # "createOrg"
                     \/ skipDbVerification
                     \/ verifyOrganizationExists(pool["worker"], db, genKey, f)
       IN  EndBody(IF uiPass /\ dbPass THEN "passed" ELSE "failed")
  /\ UNCHANGED <<env, libVars, dbVars, mainVars, testsRun, testKind, hasTracker, genKey, created,
                 regCalls, trackerVars, cleanupVars>>

(* any awaited UI action of a body may fail or time out *)
BodyFault ==
  /\ wpc \in (ScriptedBody \ {"b_skipcheck"}) \cup {"b_free"}
  /\ EndBody("failed")
  /\ UNCHANGED <<env, libVars, dbVars, mainVars, testsRun, testKind, hasTracker, genKey, created,
                 regCalls, trackerVars, cleanupVars>>

BodyRegisterUser ==
  /\ wpc = "b_free"
  /\ regCalls < MaxReg
  /\ \E email \in GenEmails : usersToCleanup' = registerUser(usersToCleanup, email)
  /\ regCalls' = regCalls + 1
  /\ UNCHANGED <<env, libVars, dbVars, mainVars, wpc, testsRun, testKind, hasTracker, genKey,
                 created, bodyOutcome, testLog, organizationsToCleanup, cleanupVars>>

BodyRegisterOrganization ==
  /\ wpc = "b_free"
  /\ regCalls < MaxReg
  /\ \E slug \in GenSlugs :
       organizationsToCleanup' = registerOrganization(organizationsToCleanup, slug)
  /\ regCalls' = regCalls + 1
  /\ UNCHANGED <<env, libVars, dbVars, mainVars, wpc, testsRun, testKind, hasTracker, genKey,
                 created, bodyOutcome, testLog, usersToCleanup, cleanupVars>>

(* the body calls testCleanup.cleanup() itself *)
BodyCallCleanup ==
  /\ wpc = "b_free"
  /\ regCalls < MaxReg
  /\ clResult = "none"
  /\ wpc' = "cl_entry"
  /\ clCaller' = "body"
  /\ regCalls' = regCalls + 1
  /\ UNCHANGED <<env, libVars, dbVars, mainVars, testsRun, testKind, hasTracker, genKey, created,
                 bodyOutcome, testLog, trackerVars, clIdx, clPath, clResult, clPlan,
                 attempted,
                 fixtureCleanups>>

BodyFinish ==
  /\ wpc = "b_free"
  /\ EndBody("passed")
  /\ UNCHANGED <<env, libVars, dbVars, mainVars, testsRun, testKind, hasTracker, genKey, created,
                 regCalls, trackerVars, cleanupVars>>


(* ---------------------- the testCleanup fixture ------------------------ *)
(* after use(): does the fixture go on to call cleanup()? *)
FixtureRunsCleanupOutsideCI(e) == e.DATABASE_URL /\ ~e.CI

FixtureRunsCleanup(e) ==
  IF e.CI /\ ~e.DATABASE_URL THEN FALSE
  ELSE IF e.DATABASE_URL THEN TRUE
  ELSE FALSE

FixtureTeardown ==
  /\ wpc = "fx_teardown"
  /\ wpc' = IF hasTracker /\ FixtureRunsCleanup(env) THEN "fx_connect" ELSE "fx_done"
  /\ UNCHANGED <<env, libVars, dbVars, mainVars, testVars, trackerVars, cleanupVars>>

FixtureConnect ==
  /\ wpc = "fx_connect"
  /\ \E ok \in BOOLEAN : DoConnect("worker", ok)
  /\ wpc' = "cl_entry"
  /\ clCaller' = "fixture"
  /\ fixtureCleanups' = fixtureCleanups + 1
  /\ UNCHANGED <<env, libVars, db, mainVars, testVars, trackerVars, clIdx, clPath, clResult,
                 clPlan, attempted>>

(* -------------------------- TestCleanup.cleanup ------------------------ *)
(* the guard at the top of cleanup() *)
CleanupSkips(e) == ~e.DATABASE_URL \/ (e.CI /\ ~e.DATABASE_URL)

(* the catch block around connect(): how cleanup() ends, and whether it    *)
(* empties the two arrays before it does                                   *)
CleanupOnConnectErrorRethrows == [res |-> "threw", clear |-> FALSE]

CleanupOnConnectError == [res |-> "returned", clear |-> FALSE]

(* for (const x of list): the element visited by the i-th iteration *)
IterAtReversed(list, i) == list[Len(list) - i + 1]

IterAt(list, i) == list[i]

(* the index after an iteration whose helper call returned r (or threw and *)
(* was caught by the loop body's try/catch)                                *)
LoopNextAbortsOnError(i, r, len) == IF r.error THEN len + 1 ELSE i + 1

LoopNext(i, r, len) == i + 1

CleanupEntry ==
  /\ wpc = "cl_entry"
  /\ clPlan' = <<organizationsToCleanup, usersToCleanup>>
  /\ attempted' = <<>>
  /\ clIdx' = 0
  /\ IF CleanupSkips(env)
       THEN /\ usersToCleanup' = <<>>
            /\ organizationsToCleanup' = <<>>
            /\ clPath' = "nourl"
            /\ clResult' = "returned"
            /\ wpc' = "cl_return"
       ELSE /\ UNCHANGED trackerVars
            /\ clPath' = "none"
            /\ clResult' = "running"
            /\ wpc' = "cl_connect"
  /\ UNCHANGED <<env, libVars, dbVars, mainVars, testVars, clCaller, fixtureCleanups>>

CleanupConnect ==
  /\ wpc = "cl_connect"
  /\ \E ok \in BOOLEAN : DoConnect("worker", ok)
  /\ IF lastConnect'["worker"].res = "threw"
       THEN /\ clPath' = "connfail"
            /\ clResult' = CleanupOnConnectError.res
            /\ IF CleanupOnConnectError.clear
                 THEN usersToCleanup' = <<>> /\ organizationsToCleanup' = <<>>
                 ELSE UNCHANGED trackerVars
            /\ wpc' = "cl_return"
            /\ UNCHANGED clIdx
       ELSE /\ clPath' = "full"
            /\ clIdx' = 1
            /\ wpc' = "cl_orgs"
            /\ UNCHANGED <<clResult, trackerVars>>
  /\ UNCHANGED <<env, libVars, db, mainVars, testVars, clCaller, clPlan, attempted, fixtureCleanups>>

CleanupOrganization ==
  /\ wpc = "cl_orgs"
  /\ clIdx <= Len(organizationsToCleanup)
  /\ \E f \in 0..OrganizationStatements :
       LET slug == IterAt(organizationsToCleanup, clIdx)
           r    == deleteOrganizationBySlug(pool["worker"], db, slug, f)
       IN  /\ db' = r.db
           /\ attempted' = Append(attempted,
                             [kind |-> "organization", key |-> slug, deleted |-> r.ret,
                              error |-> r.error])
           /\ clIdx' = LoopNext(clIdx, r, Len(organizationsToCleanup))
  /\ UNCHANGED <<env, libVars, ConnNoDb, mainVars, wpc, testVars, trackerVars, clCaller, clPath,
                 clResult, clPlan, fixtureCleanups>>

CleanupOrganizationsDone ==
  /\ wpc = "cl_orgs"
  /\ clIdx > Len(organizationsToCleanup)
  /\ wpc' = "cl_users"
  /\ clIdx' = 1
  /\ UNCHANGED <<env, libVars, dbVars, mainVars, testVars, trackerVars, clCaller, clPath,
                 clResult, clPlan, attempted, fixtureCleanups>>

CleanupUser ==
  /\ wpc = "cl_users"
  /\ clIdx <= Len(usersToCleanup)
  /\ \E f \in 0..UserStatements :
       LET email == IterAt(usersToCleanup, clIdx)
           r     == deleteUserByEmail(pool["worker"], db, email, f)
       IN  /\ db' = r.db
           /\ attempted' = Append(attempted,
                             [kind |-> "user", key |-> email, deleted |-> r.ret,
                              error |-> r.error])
           /\ clIdx' = LoopNext(clIdx, r, Len(usersToCleanup))
  /\ UNCHANGED <<env, libVars, ConnNoDb, mainVars, wpc, testVars, trackerVars, clCaller, clPath,
                 clResult, clPlan, fixtureCleanups>>

(* both loops are over: log, clear the arrays, return *)
CleanupFinish ==
  /\ wpc = "cl_users"
  /\ clIdx > Len(usersToCleanup)
  /\ usersToCleanup' = <<>>
  /\ organizationsToCleanup' = <<>>
  /\ clResult' = "returned"
  /\ wpc' = "cl_return"
  /\ UNCHANGED <<env, libVars, dbVars, mainVars, testVars, clCaller, clIdx, clPath, clPlan,
                 attempted, fixtureCleanups>>

(* control is back in the caller of cleanup() *)
CleanupReturn ==
  /\ wpc = "cl_return"
  /\ wpc' = IF clCaller = "fixture" THEN "fx_done"
            ELSE IF clResult = "threw" THEN "fx_teardown" ELSE "b_free"
  /\ bodyOutcome' = IF clCaller = "body" /\ clResult = "threw" THEN "failed"
                    ELSE bodyOutcome
  /\ UNCHANGED <<env, libVars, dbVars, mainVars, testsRun, testKind, hasTracker, genKey, created,
                 testLog, regCalls, trackerVars, cleanupVars>>

(* the test and its fixtures are over; the tracker object is dropped *)
EndTest ==
  /\ wpc = "fx_done"
  /\ wpc' = "idle"
  /\ testKind' = "none"
  /\ hasTracker' = FALSE
  /\ usersToCleanup' = <<>>
  /\ organizationsToCleanup' = <<>>
  /\ genKey' = Null
  /\ created' = {}
  /\ bodyOutcome' = "none"
  /\ testLog' = <<>>
  /\ regCalls' = 0
  /\ ResetCleanup
  /\ lastConnect' = [lastConnect EXCEPT !["worker"] = NoConnect]
  /\ UNCHANGED <<env, libVars, db, pool, livePools, mainVars, testsRun>>

(* ---------------------------- specification ---------------------------- *)
Next ==
  \/ RunnerStart
  \/ GlobalSetupConnect
  \/ GlobalSetupSweepUsers
  \/ GlobalSetupSweepOrganizations
  \/ StartTest
  \/ DatabaseFixture
  \/ BodySkipCheck
  \/ BodyGenerate
  \/ BodyRegister
  \/ BodyVerifyBefore
  \/ BodySubmit
  \/ BodyAssert
  \/ BodyFault
  \/ BodyRegisterUser
  \/ BodyRegisterOrganization
  \/ BodyCallCleanup
  \/ BodyFinish
  \/ FixtureTeardown
  \/ FixtureConnect
  \/ CleanupEntry
  \/ CleanupConnect
  \/ CleanupOrganization
  \/ CleanupOrganizationsDone
  \/ CleanupUser
  \/ CleanupFinish
  \/ CleanupReturn
  \/ EndTest
  \/ RunnerFinish
  \/ GlobalTeardownEntry
  \/ GlobalTeardownConnect
  \/ GlobalTeardownSweepUsers
  \/ GlobalTeardownSweepOrganizations
  \/ GlobalTeardownDisconnect

Spec == Init /\ [][Next]_vars


(* --------------- DatabaseHelper called directly (HelperSpec) ----------- *)
(* One process calls the static helpers in any order on a store drawn from *)
(* HelperDbs; call records the latest call: the store, pool and pool count *)
(* before it, what it returned, and what the call before it returned when  *)
(* that was the same operation on the same key.                            *)
HelperUsers         == {ValidUser, StaleEmail, StaleEmail2}
HelperOrganizations == {"s1", StaleSlug, StaleSlug2}

(* a store holding users U and organizations O with all their dependents *)
MakeDb(U, O) ==
  [user              |-> U,
   organization      |-> O,
   session           |-> U,
   account           |-> U,
   member            |-> U \X O,
   invitation        |-> U \X O,
   organization_role |-> O]

HelperDbs == {MakeDb(U, O) : U \in {HelperUsers, {ValidUser}},
                           O \in {HelperOrganizations, {"s1"}}}

HelperEnv == [DATABASE_URL |-> TRUE, CI |-> FALSE, cleanupOnStart |-> FALSE,
              cleanupOnEnd |-> FALSE]

HelperInit ==
  /\ env = HelperEnv
  /\ db \in HelperDbs
  /\ Fresh

Called(op, key, fault) ==
  LET same == call.op = op /\ call.key = key
  IN  [NoCall EXCEPT !.op = op, !.key = key, !.fault = fault, !.pre = db,
                     !.poolPre = pool["main"], !.livePre = livePools["main"],
                     !.prevSame = same,
                     !.prevRet = IF same THEN call.ret ELSE FALSE,
                     !.prevRes = IF same THEN call.res ELSE "none"]

HelperConnect ==
  /\ calls < MaxCalls
  /\ calls' = calls + 1
  /\ \E ok \in BOOLEAN : DoConnect("main", ok)
  /\ LET res == lastConnect'["main"].res
     IN  call' = [Called("connect", Null, res = "threw")
                    EXCEPT !.res = res, !.threw = (res = "threw")]
  /\ UNCHANGED <<env, auxVars, genOp, genText, genSlug, issued, db, mainVars, wpc,
                 testVars, trackerVars, cleanupVars>>

HelperDisconnect ==
  /\ calls < MaxCalls
  /\ calls' = calls + 1
  /\ \E ok \in BOOLEAN :
       LET r == disconnect(pool["main"], livePools["main"], ok)
       IN  /\ pool' = [pool EXCEPT !["main"] = r.pool]
           /\ livePools' = [livePools EXCEPT !["main"] = r.live]
           /\ call' = [Called("disconnect", Null, r.res = "threw")
                         EXCEPT !.res = r.res, !.threw = (r.res = "threw")]
  /\ UNCHANGED <<env, auxVars, genOp, genText, genSlug, issued, db, lastConnect, mainVars, wpc,
                 testVars, trackerVars, cleanupVars>>

HelperFindUser ==
  /\ calls < MaxCalls
  /\ calls' = calls + 1
  /\ \E email \in HelperUsers : \E f \in 0..1 :
       call' = [Called("findUser", email, FirstFault(pool["main"], f) = 1)
                  EXCEPT !.row = findUserByEmail(pool["main"], db, email, f)]
  /\ UNCHANGED <<env, auxVars, genOp, genText, genSlug, issued, dbVars, mainVars, wpc,
                 testVars, trackerVars, cleanupVars>>

HelperFindOrganization ==
  /\ calls < MaxCalls
  /\ calls' = calls + 1
  /\ \E slug \in HelperOrganizations : \E f \in 0..1 :
       call' = [Called("findOrganization", slug, FirstFault(pool["main"], f) = 1)
                  EXCEPT !.row = findOrganizationBySlug(pool["main"], db, slug, f)]
  /\ UNCHANGED <<env, auxVars, genOp, genText, genSlug, issued, dbVars, mainVars, wpc,
                 testVars, trackerVars, cleanupVars>>

HelperDeleteUser ==
  /\ calls < MaxCalls
  /\ calls' = calls + 1
  /\ \E email \in HelperUsers : \E f \in 0..UserStatements :
       LET r == deleteUserByEmail(pool["main"], db, email, f)
       IN  /\ db' = r.db
           /\ call' = [Called("deleteUser", email, r.error)
                         EXCEPT !.ret = r.ret, !.threw = r.threw,
                                !.referenced = r.referenced]
  /\ UNCHANGED <<env, auxVars, genOp, genText, genSlug, issued, ConnNoDb, mainVars, wpc,
                 testVars, trackerVars, cleanupVars>>

HelperDeleteOrganization ==
  /\ calls < MaxCalls
  /\ calls' = calls + 1
  /\ \E slug \in HelperOrganizations : \E f \in 0..OrganizationStatements :
       LET r == deleteOrganizationBySlug(pool["main"], db, slug, f)
       IN  /\ db' = r.db
           /\ call' = [Called("deleteOrganization", slug, r.error)
                         EXCEPT !.ret = r.ret, !.threw = r.threw,
                                !.referenced = r.referenced]
  /\ UNCHANGED <<env, auxVars, genOp, genText, genSlug, issued, ConnNoDb, mainVars, wpc,
                 testVars, trackerVars, cleanupVars>>

HelperSweepUsers ==
  /\ calls < MaxCalls
  /\ calls' = calls + 1
  /\ \E r \in UserSweepOutcomes(pool["main"], db) :
       /\ db' = r.db
       /\ call' = [Called("sweepUsers", Null, r.error) EXCEPT !.count = r.ret]
  /\ UNCHANGED <<env, auxVars, genOp, genText, genSlug, issued, ConnNoDb, mainVars, wpc,
                 testVars, trackerVars, cleanupVars>>

HelperSweepOrganizations ==
  /\ calls < MaxCalls
  /\ calls' = calls + 1
  /\ \E r \in OrganizationSweepOutcomes(pool["main"], db) :
       /\ db' = r.db
       /\ call' = [Called("sweepOrganizations", Null, r.error) EXCEPT !.count = r.ret]
  /\ UNCHANGED <<env, auxVars, genOp, genText, genSlug, issued, ConnNoDb, mainVars, wpc,
                 testVars, trackerVars, cleanupVars>>

HelperNext ==
  \/ HelperConnect
  \/ HelperDisconnect
  \/ HelperFindUser
  \/ HelperFindOrganization
  \/ HelperDeleteUser
  \/ HelperDeleteOrganization
  \/ HelperSweepUsers
  \/ HelperSweepOrganizations

HelperSpec == HelperInit /\ [][HelperNext]_vars


(* ------------- TestDataGenerator called directly (GeneratorSpec) -------- *)
RECURSIVE SeqsUpTo(_)
SeqsUpTo(n) ==
  IF n = 0 THEN {<<>>}
  ELSE LET shorter == SeqsUpTo(n - 1)
       IN  shorter \cup {Append(t, c) : t \in shorter, c \in Chars}

Pad(n) == [i \in 1..n |-> "b"]

(* texts of up to MaxText characters, alone or behind SlugMax - 1 letters *)
Texts == {Pad(n) \o t : n \in {0, SlugMax - 1}, t \in SeqsUpTo(MaxText)}

(* what faker.company.name() can return: a text holding at least one       *)
(* letter or digit                                                         *)
CompanyNames == {t \in Texts : \E i \in 1..Len(t) : t[i] \in {"A", "b", "7"}}

(* the generator keeps no state and reads no store or environment *)
GeneratorInit ==
  /\ env = HelperEnv
  /\ db = InitialDb
  /\ Fresh

CallGenerateSlug ==
  /\ genOp = "none"
  /\ \E t \in Texts :
       /\ genText' = t
       /\ genSlug' = generateSlug(t)
  /\ genOp' = "generateSlug"
  /\ UNCHANGED <<env, auxVars, call, calls, issued, dbVars, mainVars, wpc, testVars, trackerVars,
                 cleanupVars>>

CallGenerateOrganization ==
  /\ genOp = "none"
  /\ \E companyName \in CompanyNames :
       /\ genText' = companyName
       /\ genSlug' = generateOrganization(companyName).slug
  /\ genOp' = "generateOrganization"
  /\ UNCHANGED <<env, auxVars, call, calls, issued, dbVars, mainVars, wpc, testVars, trackerVars,
                 cleanupVars>>

GeneratorNext ==
  \/ CallGenerateSlug
  \/ CallGenerateOrganization

GeneratorSpec == GeneratorInit /\ [][GeneratorNext]_vars

(* ---------------- keys handed out during one run (KeySpec) -------------- *)
(* Any worker may call the generator; faker draws its values at random     *)
(* from a finite vocabulary, so any value may come back at any call.       *)
Workers     == {"w1", "w2"}
FakerEmails == {<<"A", "b">>, <<"a", "b">>, <<"b", "7">>}
FakerNames  == {<<"A", "b">>, <<"A", " ", "b">>, <<"A", "-", "b">>}

KeyGenerateUser ==
  /\ Len(issued) < MaxGen
  /\ \E w \in Workers : \E e \in FakerEmails :
       issued' = Append(issued, [worker |-> w, kind |-> "user", drawn |-> e,
                                 key |-> generateUser(e).email])
  /\ UNCHANGED <<env, auxVars, call, calls, genOp, genText, genSlug, dbVars, mainVars, wpc,
                 testVars,
                 trackerVars, cleanupVars>>

KeyGenerateOrganization ==
  /\ Len(issued) < MaxGen
  /\ \E w \in Workers : \E n \in FakerNames :
       issued' = Append(issued, [worker |-> w, kind |-> "organization", drawn |-> n,
                                 key |-> generateOrganization(n).slug])
  /\ UNCHANGED <<env, auxVars, call, calls, genOp, genText, genSlug, dbVars, mainVars, wpc,
                 testVars,
                 trackerVars, cleanupVars>>

KeyNext ==
  \/ KeyGenerateUser
  \/ KeyGenerateOrganization

KeySpec == GeneratorInit /\ [][KeyNext]_vars

(* --------------- the migration script (MigrateSpec) -------------------- *)
(* migrateDatabase() run as its own process against a schema in any state  *)
MigrationTables == <<"user", "organization", "member", "session", "account",
                     "verification", "organization_role", "invitation">>

(* the awaited statements of the try block: the probe, then the tables *)
MigrationStatements == <<"SELECT 1">> \o MigrationTables

Range(q) == {q[i] : i \in 1..Len(q)}

otherLibVars == <<call, calls, genOp, genText, genSlug, issued>>
auxButMigrate == <<taskVars, raceVars, pageVars>>

MigrateInit ==
  /\ env = HelperEnv
  /\ db = InitialDb
  /\ FreshRun
  /\ FreshTasks
  /\ FreshRace
  /\ FreshPage
  /\ migPc = "start"
  /\ migStmt = 1
  /\ migTables \in SUBSET Range(MigrationTables)
  /\ migPool = "none"
  /\ migFault = 0
  /\ migExit = Null

(* const pool = new Pool(...) *)
MigrateNewPool ==
  /\ migPc = "start"
  /\ migPool' = "open"
  /\ migPc' = "try"
  /\ UNCHANGED <<env, otherLibVars, auxButMigrate, migStmt, migTables, migFault, migExit, dbVars,
                 mainVars, wpc, testVars, trackerVars, cleanupVars>>

(* one awaited pool.query of the try block; a rejection enters catch *)
MigrateStatement ==
  /\ migPc = "try"
  /\ \E ok \in BOOLEAN :
       IF ok
         THEN /\ migTables' = IF migStmt = 1 THEN migTables
                              ELSE migTables \cup {MigrationStatements[migStmt]}
              /\ migStmt' = migStmt + 1
              /\ migPc' = IF migStmt = Len(MigrationStatements) THEN "finally" ELSE "try"
              /\ UNCHANGED migFault
         ELSE /\ migFault' = migStmt
              /\ migPc' = "catch"
              /\ UNCHANGED <<migTables, migStmt>>
  /\ UNCHANGED <<env, otherLibVars, auxButMigrate, migPool, migExit, dbVars,
                 mainVars, wpc, testVars, trackerVars, cleanupVars>>

(* catch: Logger.error(...); process.exit(1) ends the process at once, so  *)
(* control never reaches the finally block                                 *)
MigrateCatch ==
  /\ migPc = "catch"
  /\ migExit' = 1
  /\ migPc' = "exited"
  /\ UNCHANGED <<env, otherLibVars, auxButMigrate, migStmt, migTables, migPool, migFault, dbVars,
                 mainVars, wpc, testVars, trackerVars, cleanupVars>>

(* finally: await pool.end() *)
MigrateFinally ==
  /\ migPc = "finally"
  /\ migPool' = "ended"
  /\ migPc' = "returned"
  /\ UNCHANGED <<env, otherLibVars, auxButMigrate, migStmt, migTables, migFault, migExit, dbVars,
                 mainVars, wpc, testVars, trackerVars, cleanupVars>>

(* migrateDatabase() has resolved and nothing is pending: the process ends *)
MigrateProcessEnd ==
  /\ migPc = "returned"
  /\ migExit' = 0
  /\ migPc' = "exited"
  /\ UNCHANGED <<env, otherLibVars, auxButMigrate, migStmt, migTables, migPool, migFault, dbVars,
                 mainVars, wpc, testVars, trackerVars, cleanupVars>>

MigrateNext ==
  \/ MigrateNewPool
  \/ MigrateStatement
  \/ MigrateCatch
  \/ MigrateFinally
  \/ MigrateProcessEnd

MigrateSpec == MigrateInit /\ [][MigrateNext]_vars

(* ------- concurrent callers of DatabaseHelper (ConnectSpec) ------------- *)
(* Several async callers share the static DatabaseHelper.pool of one       *)
(* process; control passes from one to another at every await.  A caller   *)
(* is "idle" between its calls, "probe" while connect() awaits             *)
(* pool.query('SELECT 1') and "ending" while disconnect() awaits           *)
(* pool.end().  returned: its latest connect() returned normally and no    *)
(* disconnect() was called or finished since.  saw / held: what its latest *)
(* isConnected() or query() observed, and returned at that moment.         *)
ConnectInit ==
  /\ env = HelperEnv
  /\ db = InitialDb
  /\ Fresh

ConnectFrame == <<env, call, genOp, genText, genSlug, issued, migrateVars, raceVars, pageVars, db,
                  lastConnect, mainVars, wpc, testVars, trackerVars, cleanupVars>>

(* connect() up to its first await: the guard, then this.pool = new Pool() *)
TaskConnect(t) ==
  /\ task[t].pc = "idle"
  /\ calls < MaxCalls
  /\ calls' = calls + 1
  /\ IF pool["main"] # NoPool
       THEN /\ task' = [task EXCEPT ![t].returned = TRUE]
            /\ UNCHANGED pool
       ELSE /\ pool' = [pool EXCEPT !["main"] = APool]
            /\ task' = [task EXCEPT ![t].pc = "probe"]
  /\ UNCHANGED <<ConnectFrame, livePools>>

(* connect() after the probe settled: return, or this.pool = null; throw *)
TaskConnectProbed(t) ==
  /\ task[t].pc = "probe"
  /\ \E ok \in BOOLEAN :
       IF ok
         THEN /\ task' = [task EXCEPT ![t].pc = "idle", ![t].returned = TRUE]
              /\ livePools' = [livePools EXCEPT !["main"] = @ + 1]
              /\ UNCHANGED pool
         ELSE /\ task' = [task EXCEPT ![t].pc = "idle", ![t].returned = FALSE]
              /\ pool' = [pool EXCEPT !["main"] = NoPool]
              /\ UNCHANGED livePools
  /\ UNCHANGED <<ConnectFrame, calls>>

(* disconnect() up to its await; from here on every caller's connect()     *)
(* has a disconnect() after it                                             *)
TaskDisconnect(t) ==
  /\ task[t].pc = "idle"
  /\ calls < MaxCalls
  /\ calls' = calls + 1
  /\ task' = [u \in Tasks |->
                [task[u] EXCEPT !.returned = FALSE,
                                !.pc = IF u = t /\ pool["main"] # NoPool
                                         THEN "ending" ELSE task[u].pc]]
  /\ UNCHANGED <<ConnectFrame, pool, livePools>>

(* disconnect() after pool.end() settled *)
TaskDisconnectEnded(t) ==
  /\ task[t].pc = "ending"
  /\ \E ok \in BOOLEAN :
       IF ok
         THEN /\ pool' = [pool EXCEPT !["main"] = NoPool]
              /\ livePools' = [livePools EXCEPT !["main"] =
                                 IF @ > 0 THEN @ - 1 ELSE 0]
         ELSE UNCHANGED <<pool, livePools>>
  /\ task' = [u \in Tasks |->
                [task[u] EXCEPT !.returned = FALSE,
                                !.pc = IF u = t THEN "idle" ELSE task[u].pc]]
  /\ UNCHANGED <<ConnectFrame, calls>>

(* isConnected(), or the guard of query() that throws 'Database not        *)
(* connected': both read this.pool                                         *)
TaskObserve(t) ==
  /\ task[t].pc = "idle"
  /\ calls < MaxCalls
  /\ calls' = calls + 1
  /\ task' = [task EXCEPT ![t].saw = IF isConnected(pool["main"]) THEN "up" ELSE "down",
                          ![t].held = task[t].returned]
  /\ UNCHANGED <<ConnectFrame, pool, livePools>>

ConnectNext ==
  \E t \in Tasks :
    \/ TaskConnect(t)
    \/ TaskConnectProbed(t)
    \/ TaskDisconnect(t)
    \/ TaskDisconnectEnded(t)
    \/ TaskObserve(t)

ConnectSpec == ConnectInit /\ [][ConnectNext]_vars

(* ------ two delete calls for one key at once (DeleteRaceSpec) ----------- *)
(* Both callers run deleteUserByEmail(key) or deleteOrganizationBySlug(key) *)
(* for the same existing key; every statement is its own autocommitted     *)
(* query, so the two calls interleave statement by statement.              *)
DeleteRaceInit ==
  /\ env = HelperEnv
  /\ db \in HelperDbs
  /\ FreshRun
  /\ FreshMigration
  /\ FreshTasks
  /\ FreshPage
  /\ del = [t \in Tasks |-> NoDel]
  /\ delOp \in {[kind |-> "user", key |-> u] : u \in db.user}
               \cup {[kind |-> "organization", key |-> o] : o \in db.organization}

DeleteRaceFrame == <<env, otherLibVars, migrateVars, taskVars, pageVars, delOp, mainVars, wpc,
                     testVars,
                     trackerVars, cleanupVars>>

LastStatement(kind) ==
  IF kind = "user" THEN UserStatements - 1 ELSE OrganizationStatements - 1

(* result.length > 0 of the final DELETE ... RETURNING id *)
EntityDeletedAlways(d, kind, id) == TRUE

EntityDeleted(d, kind, id) ==
  IF kind = "user" THEN id \in d.user ELSE id \in d.organization

(* the process connects before the two calls are issued *)
RaceConnect ==
  /\ lastConnect["main"].res = "none"
  /\ \E ok \in BOOLEAN : DoConnect("main", ok)
  /\ UNCHANGED <<DeleteRaceFrame, db, del>>

(* const row = await this.find...(key); if (!row) return false *)
RaceLookup(t) ==
  /\ lastConnect["main"].res # "none"
  /\ ~del[t].done
  /\ del[t].pc = 0
  /\ \E f \in 0..1 :
       LET ff  == FirstFault(pool["main"], f)
           row == IF delOp.kind = "user"
                    THEN findUserByEmail(pool["main"], db, delOp.key, f)
                    ELSE findOrganizationBySlug(pool["main"], db, delOp.key, f)
       IN  del' = [del EXCEPT ![t] =
                     IF row = Null
                       THEN [@ EXCEPT !.done = TRUE, !.ret = FALSE,
                                      !.fault = IF ff = 1 THEN 1 ELSE 0]
                       ELSE [@ EXCEPT !.pc = 1, !.id = row]]
  /\ UNCHANGED <<DeleteRaceFrame, dbVars>>

(* the next awaited DELETE of the call; a rejection enters the catch block *)
RaceStatement(t) ==
  /\ ~del[t].done
  /\ del[t].pc >= 1
  /\ LET k    == del[t].pc
         last == LastStatement(delOp.kind)
     IN  \E ok \in BOOLEAN :
           IF ok
             THEN /\ db' = IF delOp.kind = "user"
                             THEN UserDeleteStmt(db, k, del[t].id)
                             ELSE OrganizationDeleteStmt(db, k, del[t].id)
                  /\ del' = [del EXCEPT ![t] =
                               IF k = last
                                 THEN [@ EXCEPT !.done = TRUE,
                                         !.ret = EntityDeleted(db, delOp.kind, del[t].id)]
                                 ELSE [@ EXCEPT !.pc = k + 1]]
             ELSE /\ del' = [del EXCEPT ![t] =
                               [@ EXCEPT !.done = TRUE, !.ret = FALSE, !.fault = k + 1]]
                  /\ UNCHANGED db
  /\ UNCHANGED <<DeleteRaceFrame, pool, livePools, lastConnect>>

DeleteRaceNext ==
  \/ RaceConnect
  \/ \E t \in Tasks : RaceLookup(t)
  \/ \E t \in Tasks : RaceStatement(t)

DeleteRaceSpec == DeleteRaceInit /\ [][DeleteRaceNext]_vars

(* ------------- the organization list page (PageSpec) -------------------- *)
(* The application renders one button per row: 'Use Organization', enabled *)
(* and without icon, for an inactive organization; 'Active Organization',  *)
(* disabled and with the star icon, for the active one.  Texts are         *)
(* sequences of words.                                                     *)
UseOrganizationText    == <<"Use", "Organization">>
ActiveOrganizationText == <<"Active", "Organization">>

(* a Locator result: found is FALSE for the null the page object returns *)
NoButton == [found |-> FALSE, text |-> <<>>, disabled |-> FALSE, star |-> FALSE]

RowButton(state) ==
  IF state = "active"
    THEN [found |-> TRUE, text |-> ActiveOrganizationText, disabled |-> TRUE,
          star |-> TRUE]
    ELSE [found |-> TRUE, text |-> UseOrganizationText, disabled |-> FALSE,
          star |-> FALSE]

(* :has-text("...") and String.includes: the needle occurs in the text *)
hasText(t, needle) ==
  \E i \in 1..(Len(t) - Len(needle) + 1) : SubSeq(t, i, i + Len(needle) - 1) = needle

getOrganizationRowBySlug(tbl, slug) ==
  IF tbl[slug] = "absent" THEN Null ELSE slug

(* row.locator('td:first-child button:has-text("Use Organization")'),      *)
(* null when no such button becomes visible                                *)
findUseOrganizationButtonForSlug(tbl, slug) ==
  LET row == getOrganizationRowBySlug(tbl, slug)
  IN  IF row = Null THEN NoButton
      ELSE IF hasText(RowButton(tbl[row]).text, UseOrganizationText)
        THEN RowButton(tbl[row])
        ELSE NoButton

clickUseOrganizationForSlug(tbl, slug) ==
  LET button == findUseOrganizationButtonForSlug(tbl, slug)
  IN  IF ~button.found THEN [ret |-> FALSE, clicked |-> FALSE]
      ELSE IF button.disabled THEN [ret |-> FALSE, clicked |-> FALSE]
      ELSE [ret |-> TRUE, clicked |-> TRUE]

isOrganizationActive(tbl, slug) ==
  LET button == findUseOrganizationButtonForSlug(tbl, slug)
  IN  IF ~button.found THEN FALSE
      ELSE button.disabled /\ button.star /\ hasText(button.text, ActiveOrganizationText)

(* the application makes slug the one active organization *)
Activate(tbl, slug) ==
  [o \in PageSlugs |-> IF o = slug THEN "active"
                       ELSE IF tbl[o] = "active" THEN "inactive" ELSE tbl[o]]

PageInit ==
  /\ env = HelperEnv
  /\ db = InitialDb
  /\ FreshRun
  /\ FreshMigration
  /\ FreshTasks
  /\ FreshRace
  /\ table \in {tbl \in [PageSlugs -> {"absent", "inactive", "active"}] :
                  Cardinality({o \in PageSlugs : tbl[o] = "active"}) <= 1}
  /\ pageCall = NoPageCall

PageFrame == <<env, otherLibVars, migrateVars, taskVars, raceVars, dbVars, mainVars, wpc,
               testVars, trackerVars, cleanupVars>>

PageClickUseOrganization ==
  /\ \E slug \in PageSlugs : \E appOk \in BOOLEAN :
       LET r == clickUseOrganizationForSlug(table, slug)
       IN  /\ table' = IF r.clicked /\ appOk THEN Activate(table, slug) ELSE table
           /\ pageCall' = [op |-> "clickUseOrganization", slug |-> slug, ret |-> r.ret,
                           clicked |-> r.clicked, pre |-> table[slug],
                           activated |-> IF r.clicked /\ appOk THEN slug ELSE Null]
  /\ UNCHANGED PageFrame

PageIsOrganizationActive ==
  /\ \E slug \in PageSlugs :
       pageCall' = [op |-> "isOrganizationActive", slug |-> slug,
                    ret |-> isOrganizationActive(table, slug), clicked |-> FALSE,
                    pre |-> table[slug],
                    activated |-> IF pageCall.op = "clickUseOrganization"
                                    THEN pageCall.activated ELSE Null]
  /\ UNCHANGED <<PageFrame, table>>

PageNext ==
  \/ PageClickUseOrganization
  \/ PageIsOrganizationActive

PageSpec == PageInit /\ [][PageNext]_vars


(* ------------------------------ properties ----------------------------- *)
IsPrefix(a, b) == Len(a) <= Len(b) /\ \A i \in 1..Len(a) : a[i] = b[i]

(* the deletions cleanup() owes for the registrations it was entered with:  *)
(* plan[1] the organization slugs, plan[2] the user emails                  *)
Owed(plan) ==
  [i \in 1..Len(plan[1]) |-> <<"organization", plan[1][i]>>]
    \o [i \in 1..Len(plan[2]) |-> <<"user", plan[2][i]>>]

Attempts == [i \in 1..Len(attempted) |-> <<attempted[i].kind, attempted[i].key>>]

Stats == getStats(usersToCleanup, organizationsToCleanup)

Registered ==
  {usersToCleanup[i] : i \in 1..Len(usersToCleanup)}
    \cup {organizationsToCleanup[i] : i \in 1..Len(organizationsToCleanup)}

(* C1: whenever the store is unreachable (no connection string, or connect() *)
(* fails), cleanup() returns without throwing and getStats() is 0 / 0.       *)
C1_UnreachableCleanupClears ==
  (wpc = "cl_return" /\ clPath \in {"nourl", "connfail"})
    => (clResult = "returned" /\ Stats = [users |-> 0, organizations |-> 0])

C3_FailureDoesNotStopBatch ==
  (wpc = "cl_return" /\ clPath = "full" /\ \E i \in 1..Len(attempted) : attempted[i].error)
    => /\ Len(attempted) = Len(clPlan[1]) + Len(clPlan[2])
       /\ \A j \in 1..Len(clPlan[1]) :
            \E i \in 1..Len(attempted) :
              attempted[i].kind = "organization" /\ attempted[i].key = clPlan[1][j]
       /\ \A j \in 1..Len(clPlan[2]) :
            \E i \in 1..Len(attempted) :
              attempted[i].kind = "user" /\ attempted[i].key = clPlan[2][j]

C3_Witness ==
  /\ wpc = "cl_return"
  /\ clPath = "full"
  /\ Len(attempted) >= 2
  /\ attempted[1].error
  /\ ~attempted[2].error

(* C4: cleanup() never throws to its caller, whatever the connection state   *)
(* and whatever the store statements do.                                     *)
C4_CleanupNeverThrows == clResult # "threw"

C4_Witness ==
  /\ wpc = "cl_return"
  /\ clPath = "connfail"
  /\ clResult = "returned"

(* C5: every invocation of cleanup() ends in Done: both registration lists   *)
(* are empty when it returns, whichever path it took.                        *)
C5_CleanupEndsDone ==
  wpc = "cl_return" => (usersToCleanup = <<>> /\ organizationsToCleanup = <<>>)

(* C6 (as stated): once the body of a test that uses the testCleanup fixture *)
(* is over, the fixture has invoked cleanup() on the tracker, in every       *)
(* environment configuration.                                                *)
C6_FixtureAlwaysCleans ==
  (wpc = "fx_done" /\ hasTracker) => fixtureCleanups >= 1

(* C6 (amended): once the body is over - passed, failed or skipped - the     *)
(* fixture has invoked cleanup() on the tracker exactly once if DATABASE_URL *)
(* is configured, and not at all if it is not.                               *)
C6_FixtureCleansIffUrl ==
  (wpc = "fx_done" /\ hasTracker)
    => fixtureCleanups = (IF env.DATABASE_URL THEN 1 ELSE 0)

C6_Witness ==
  /\ wpc = "fx_done"
  /\ hasTracker
  /\ bodyOutcome = "failed"
  /\ fixtureCleanups = 1
  /\ clResult = "returned"

(* C7: in every test that creates a user or an organization through the UI,  *)
(* the natural key is registered with the tracker before the creation is     *)
(* asserted.                                                                 *)
C7_CreatedIsRegistered ==
  wpc = "b_assert" => created \subseteq Registered

(* C8: connect() while already connected opens no new pool, issues no probe  *)
(* and leaves the existing pool in place; successive calls never leave more  *)
(* than one open pool, and exactly one while connected.                      *)
C8_ConnectIdempotent ==
  \A p \in Procs :
    /\ lastConnect[p].pre # NoPool
         => /\ lastConnect[p].res = "noop"
            /\ ~lastConnect[p].created
            /\ ~lastConnect[p].probed
            /\ lastConnect[p].post = lastConnect[p].pre
    /\ livePools[p] <= 1
    /\ isConnected(pool[p]) => livePools[p] = 1

C8_Witness ==
  /\ lastConnect["worker"].pre # NoPool
  /\ lastConnect["worker"].res = "noop"
  /\ livePools["worker"] = 1

(* C9: a connect() whose probe fails throws and leaves the client            *)
(* disconnected (isConnected() is false), and the next connect() of that     *)
(* process constructs a pool and probes again.                               *)
C9_FailedConnectLeavesDisconnected ==
  \A p \in Procs :
    /\ lastConnect[p].res = "threw"
         => /\ lastConnect[p].post = NoPool
            /\ ~isConnected(pool[p])
    /\ lastConnect[p].retry
         => /\ lastConnect[p].pre = NoPool
            /\ lastConnect[p].created
            /\ lastConnect[p].probed

C9_Witness ==
  /\ lastConnect["worker"].retry
  /\ lastConnect["worker"].res = "ok"
  /\ isConnected(pool["worker"])

(* C10: when connect() fails in global setup, setup completes normally and   *)
(* the run is not aborted.                                                   *)
C10_SetupSurvivesConnectFailure ==
  /\ setupResult # "threw"
  /\ mpc # "aborted"

(* C11: globalTeardown never raises, and a step that fails does not stop   *)
(* the steps after it: the organization sweep follows the user sweep        *)
(* whatever the user sweep reported, disconnect follows the sweeps          *)
(* whatever they reported, and after a failed connect the hook still runs   *)
(* to its end and returns.                                                  *)
C11_TeardownStepsContinue ==
  /\ teardownResult # "threw"
  /\ \A i \in 1..Len(gtLog) :
       /\ gtLog[i][1] = "users"
            => \/ i = Len(gtLog) /\ mpc = "gt_orgs"
               \/ i < Len(gtLog) /\ gtLog[i + 1][1] = "orgs"
       /\ gtLog[i][1] = "orgs"
            => \/ i = Len(gtLog) /\ mpc = "gt_disconnect"
               \/ i < Len(gtLog) /\ gtLog[i + 1][1] = "disconnect"
       /\ gtLog[i] = <<"connect", TRUE>>
            => /\ mpc \in {"gt_disconnect", "end"}
               /\ mpc = "end" => teardownResult = "returned"
       /\ gtLog[i][1] = "disconnect"
            => mpc = "end" /\ teardownResult = "returned"

C11_Witness ==
  /\ mpc = "end"
  /\ teardownResult = "returned"
  /\ Len(gtLog) = 4
  /\ gtLog[2] = <<"users", TRUE>>
  /\ gtLog[3] = <<"orgs", TRUE>>
  /\ gtLog[4] = <<"disconnect", TRUE>>

(* C12: once globalTeardown has returned, the runner process holds no open  *)
(* store connection, whatever the environment and the outcome of setup.     *)
C12_ConnectionClosedAfterTeardown ==
  (mpc = "end" /\ teardownResult = "returned") => ~isConnected(pool["main"])

(* the rows of each dependent table that belong to user e / organization o *)
UserRows(d, e) ==
  <<e \in d.user, e \in d.session, e \in d.account,
    {m \in d.member : m[1] = e}, {m \in d.invitation : m[1] = e}>>

OrganizationRows(d, o) ==
  <<o \in d.organization, o \in d.organization_role,
    {m \in d.member : m[2] = o}, {m \in d.invitation : m[2] = o}>>

(* C13: disconnect() with no pool does nothing and does not throw; while    *)
(* connected (and pool.end() resolving) it ends the pool and isConnected()  *)
(* becomes false; a disconnect() right after a disconnect() is a no-op.     *)
C13_DisconnectIdempotent ==
  call.op = "disconnect" =>
    /\ call.poolPre = NoPool
         => /\ call.res = "noop"
            /\ ~call.threw
            /\ pool["main"] = NoPool
            /\ livePools["main"] = call.livePre
    /\ (call.poolPre # NoPool /\ ~call.fault)
         => /\ call.res = "ok"
            /\ ~isConnected(pool["main"])
            /\ livePools["main"] = call.livePre - 1
    /\ (call.prevSame /\ call.prevRes \in {"ok", "noop"})
         => call.res = "noop" /\ ~call.threw

C13_Witness ==
  /\ call.op = "disconnect"
  /\ call.prevSame
  /\ call.prevRes = "ok"
  /\ call.res = "noop"
  /\ ~isConnected(pool["main"])

C15_DeleteForeignKeySafe ==
  /\ call.op = "deleteUser"
       => /\ ~call.referenced
          /\ call.ret <=> (call.key \in call.pre.user /\ call.key \notin db.user)
          /\ call.ret => /\ ~UserReferenced(db, call.key)
                         /\ findUserByEmail(pool["main"], db, call.key, 0) = Null
  /\ call.op = "deleteOrganization"
       => /\ ~call.referenced
          /\ call.ret <=> (call.key \in call.pre.organization
                             /\ call.key \notin db.organization)
          /\ call.ret => /\ ~OrganizationReferenced(db, call.key)
                         /\ findOrganizationBySlug(pool["main"], db, call.key, 0) = Null

C15_Witness ==
  /\ call.op = "deleteUser"
  /\ call.ret
  /\ \E m \in call.pre.member : m[1] = call.key
  /\ call.key \in call.pre.session

(* C16: a delete right after a delete of the same key that returned true    *)
(* returns false; deleting a key that has no row returns false, does not    *)
(* throw and leaves the store as it was.                                    *)
C16_DeleteIdempotent ==
  /\ call.op = "deleteUser"
       => /\ (call.prevSame /\ call.prevRet) => (~call.ret /\ ~call.threw)
          /\ call.key \notin call.pre.user
               => (~call.ret /\ ~call.threw /\ db = call.pre)
  /\ call.op = "deleteOrganization"
       => /\ (call.prevSame /\ call.prevRet) => (~call.ret /\ ~call.threw)
          /\ call.key \notin call.pre.organization
               => (~call.ret /\ ~call.threw /\ db = call.pre)

C16_Witness ==
  /\ call.op = "deleteUser"
  /\ call.prevSame
  /\ call.prevRet
  /\ ~call.fault
  /\ ~call.ret

(* C17: a sweep that runs without a store failure removes every matching    *)
(* entity row with its dependent rows; it returns the number of entity rows *)
(* it removed; and every non-matching entity row of the swept table keeps   *)
(* its row and its dependent rows, as does the other entity table.          *)
C17_SweepRemovesMatchingOnly ==
  /\ call.op = "sweepUsers"
       => LET match == {e \in call.pre.user : EmailLike(e)}
          IN  /\ ~call.fault
                   => /\ db.user = call.pre.user \ match
                      /\ \A e \in match : ~UserReferenced(db, e)
              /\ call.count = Cardinality(call.pre.user \ db.user)
              /\ \A e \in call.pre.user \ match : UserRows(db, e) = UserRows(call.pre, e)
              /\ db.organization = call.pre.organization
              /\ db.organization_role = call.pre.organization_role
  /\ call.op = "sweepOrganizations"
       => LET match == {o \in call.pre.organization : SlugLike(o)}
          IN  /\ ~call.fault
                   => /\ db.organization = call.pre.organization \ match
                      /\ \A o \in match : ~OrganizationReferenced(db, o)
              /\ call.count = Cardinality(call.pre.organization \ db.organization)
              /\ \A o \in call.pre.organization \ match :
                   OrganizationRows(db, o) = OrganizationRows(call.pre, o)
              /\ db.user = call.pre.user
              /\ db.session = call.pre.session
              /\ db.account = call.pre.account

C17_Witness ==
  /\ call.op = "sweepOrganizations"
  /\ call.count = 2
  /\ "s1" \in db.organization
  /\ OrganizationReferenced(db, "s1")
  /\ StaleSlug \notin db.organization
  /\ StaleSlug2 \notin db.organization

(* the derivation the specification gives: as generateSlug, but leading    *)
(* and trailing hyphens are trimmed before the cut                          *)
ReferenceSlug(t) ==
  substring(DropTrailing(DropLeading(
              CollapseHyphens(SpacesToHyphen(StripSpecial(toLowerCase(t)))), "-"), "-"),
            SlugMax)

(* C18: the slug of every company name is non-empty, made of characters of  *)
(* [a-z0-9-] only and at most 50 characters long.                           *)
C18_SlugWellFormed ==
  genOp = "generateOrganization" =>
    /\ genSlug # <<>>
    /\ \A i \in 1..Len(genSlug) : genSlug[i] \in {"a", "b", "7", "-"}
    /\ Len(genSlug) <= SlugMax

C18_Witness ==
  /\ genOp = "generateOrganization"
  /\ Len(genText) > SlugMax
  /\ Len(genSlug) = SlugMax
  /\ \E i \in 1..Len(genText) : genText[i] \in {"A", " ", "!"}

(* C19: generateSlug(text) equals the reference derivation for every text,  *)
(* so no slug begins or ends with a hyphen.                                 *)
C19_SlugEqualsReference ==
  genOp # "none" =>
    /\ genSlug = ReferenceSlug(genText)
    /\ genSlug # <<>> => (genSlug[1] # "-" /\ genSlug[Len(genSlug)] # "-")

(* C20: no two generateUser() calls return the same email and no two        *)
(* generateOrganization() calls return the same slug, in one worker or      *)
(* across workers.                                                          *)
C20_KeysUnique ==
  \A i, j \in 1..Len(issued) :
    (i < j /\ issued[i].kind = issued[j].kind) => issued[i].key # issued[j].key

(* C21: every generated email matches the user sweep's pattern and every   *)
(* generated slug the organization sweep's pattern.                         *)
C21_GeneratedKeysCarryMarkers ==
  genKey # Null =>
    IF testKind = "signup" THEN EmailLike(genKey) ELSE SlugLike(genKey)

(* C22: in CI with no DATABASE_URL no process ever calls connect(), holds   *)
(* a pool or reaches a statement: the hooks do not run, the fixtures skip,  *)
(* and cleanup() returns before its connect.                                *)
C22_NoStoreAccessInCIWithoutUrl ==
  (env.CI /\ ~env.DATABASE_URL) =>
    /\ \A p \in Procs :
         /\ lastConnect[p].res = "none"
         /\ pool[p] = NoPool
         /\ livePools[p] = 0
    /\ attempted = <<>>
    /\ gtLog = <<>>
    /\ clPath \in {"none", "nourl"}
    /\ setupResult \in {"none", "skipped"}
    /\ teardownResult \in {"none", "skipped"}

C22_Witness ==
  /\ env.CI
  /\ ~env.DATABASE_URL
  /\ mpc = "workers"
  /\ wpc = "fx_done"
  /\ hasTracker
  /\ regCalls > 0
  /\ testsRun = MaxTests

(* C23: the organization creation test ends skipped whenever the worker     *)
(* has no connection to the store while the test runs.                      *)
C23_CreationTestSkipsWithoutStore ==
  (testKind = "createOrg" /\ wpc = "fx_teardown" /\ ~isConnected(pool["worker"]))
    => bodyOutcome = "skipped"


(* C24: every logged test is bracketed: once its body is over, the one     *)
(* Logger.testStart(name) it wrote is followed by exactly one              *)
(* Logger.testEnd(name, passed), and passed is TRUE exactly when the body  *)
(* completed (FALSE when an assertion or a fault ended it).                *)
C24_TestBracketedInLog ==
  (wpc = "fx_teardown" /\ testLog # <<>>) =>
    /\ testLog[1] = <<"testStart", TestName(testKind)>>
    /\ Len(testLog) = 2
    /\ testLog[2] = <<"testEnd", TestName(testKind), bodyOutcome = "passed">>


(* C25: when migrateDatabase is over, its process has exited with a        *)
(* non-zero status exactly when the probe or a CREATE TABLE statement      *)
(* failed, and in both cases pool.end() was called on the script's pool.   *)
C25_MigrationExitsAndReleasesPool ==
  migPc = "exited" =>
    /\ (migFault # 0 <=> migExit # 0)
    /\ migPool = "ended"


(* register calls made on the test's tracker since it was created or since *)
(* the cleanup() the body called on it returned                            *)
RegistersSinceCleanup ==
  IF clCaller = "body" /\ clResult = "returned"
    THEN regCalls - 1 - (Len(clPlan[1]) + Len(clPlan[2]))
    ELSE regCalls

(* C26: a test's tracker starts with both lists empty and holds nothing    *)
(* registered by another test, its cleanup() attempts only keys registered *)
(* on it, and while the body runs getStats() counts exactly the register   *)
(* calls made since the tracker was created or its last cleanup() ended.   *)
C26_TrackerIsPerTest ==
  /\ (hasTracker /\ regCalls = 0) => Stats = [users |-> 0, organizations |-> 0]
  /\ \A i \in 1..Len(attempted) :
       \/ \E j \in 1..Len(clPlan[1]) : attempted[i].key = clPlan[1][j]
       \/ \E j \in 1..Len(clPlan[2]) : attempted[i].key = clPlan[2][j]
  /\ (hasTracker /\ wpc \in ScriptedBody \cup {"b_free", "fx_teardown"}) =>
       Stats.users + Stats.organizations = RegistersSinceCleanup


(* C27: under any interleaving of the callers, a caller whose connect()    *)
(* returned normally never finds isConnected() false, nor gets 'Database   *)
(* not connected' from query(), unless disconnect() was called in between. *)
C27_ReturnedConnectIsVerified ==
  \A t \in Tasks : task[t].saw = "down" => ~task[t].held


(* rows that still belong to the key the two calls were issued for *)
RaceKeyGone ==
  IF delOp.kind = "user"
    THEN delOp.key \notin db.user /\ ~UserReferenced(db, delOp.key)
    ELSE delOp.key \notin db.organization /\ ~OrganizationReferenced(db, delOp.key)

(* C28: when two delete calls for the same existing key have run with      *)
(* their statements interleaved, at most one of them returned true,        *)
(* neither threw, and (a call having met no store error) the entity row    *)
(* and all its dependent rows are gone.                                    *)
C28_ConcurrentDeletesAgree ==
  (\A t \in Tasks : del[t].done) =>
    /\ ~(del["t1"].ret /\ del["t2"].ret)
    /\ \A t \in Tasks : ~del[t].threw
    /\ (\E t \in Tasks : del[t].fault = 0) => RaceKeyGone

(* both calls resolved the key before either deleted the entity row, and   *)
(* both ran to their last statement                                        *)
C28_Witness ==
  /\ \A t \in Tasks : del[t].done /\ del[t].id # Null /\ del[t].fault = 0
  /\ \E t \in Tasks : del[t].ret
  /\ \E t \in Tasks : ~del[t].ret
  /\ RaceKeyGone


(* the store d holds nothing the store p did not hold *)
NothingAdded(d, p) ==
  \A tbl \in DOMAIN d : d[tbl] \subseteq p[tbl]

(* C29: a store error inside deleteUserByEmail / deleteOrganizationBySlug  *)
(* for a key that has a row makes the call return false without throwing   *)
(* and leaves the entity row in place; a false result never comes with the *)
(* entity row removed; the dependent rows removed before the error stay    *)
(* removed and nothing is restored.                                        *)
C29_MidwayErrorKeepsEntity ==
  /\ call.op = "deleteUser"
       => /\ (call.fault /\ call.key \in call.pre.user)
               => (~call.ret /\ ~call.threw /\ call.key \in db.user)
          /\ (~call.ret /\ call.key \in call.pre.user) => call.key \in db.user
          /\ call.fault => NothingAdded(db, call.pre)
  /\ call.op = "deleteOrganization"
       => /\ (call.fault /\ call.key \in call.pre.organization)
               => (~call.ret /\ ~call.threw /\ call.key \in db.organization)
          /\ (~call.ret /\ call.key \in call.pre.organization)
               => call.key \in db.organization
          /\ call.fault => NothingAdded(db, call.pre)

(* the error came after dependents of the entity had been deleted *)
C29_Witness ==
  /\ call.op = "deleteOrganization"
  /\ call.fault
  /\ ~call.ret
  /\ call.key \in db.organization
  /\ \E m \in call.pre.member : m[2] = call.key
  /\ ~\E m \in db.member : m[2] = call.key
  /\ call.key \in db.organization_role


(* C30: for an organization shown in the table, isOrganizationActive(slug) *)
(* returns true exactly when its row button is in the active state;        *)
(* clickUseOrganizationForSlug(slug) clicks and returns true for an        *)
(* inactive organization and returns false without clicking for the        *)
(* active one; right after a successful activation of slug,                *)
(* isOrganizationActive(slug) is true.                                     *)
C30_ActiveStateIsReported ==
  /\ (pageCall.op = "isOrganizationActive" /\ pageCall.pre # "absent")
       => /\ pageCall.ret <=> (pageCall.pre = "active")
          /\ pageCall.activated = pageCall.slug => pageCall.ret
  /\ (pageCall.op = "clickUseOrganization" /\ pageCall.pre = "inactive")
       => (pageCall.ret /\ pageCall.clicked)
  /\ (pageCall.op = "clickUseOrganization" /\ pageCall.pre = "active")
       => (~pageCall.ret /\ ~pageCall.clicked)

=============================================================================
